---- MODULE Spec2Model ----
(***************************************************************************)
(* State-machine model of the Explore search-results client scripts:       *)
(*   - results.js      : audioQueue, audioManager, textSync,               *)
(*                       initializeSourceSegments                          *)
(*   - lightweight client (results.js "lightweight client" variant):       *)
(*                       audioManager, segmentCache / fetchSegmentByIdx    *)
(* Each component has its own specification over the shared variables; a   *)
(* component's specification leaves the other components' variables alone. *)
(***************************************************************************)
EXTENDS Integers, Sequences, FiniteSets, Bags, TLC

(***************************************************************************)
(* Bounds of the model                                                     *)
(***************************************************************************)
NumPlaceholders == 5    \* audio placeholders on the page
MaxSegments == 3        \* segments of a source
MaxTime == 4            \* largest time stamp, in ticks of 0.05 s
NumItems == 2           \* result items on the page
NumAudios == 2          \* registered audio elements
MaxPending == 2         \* media events queued on one element
MaxIdx == 1             \* largest segment index of the episode
NumTexts == 2           \* bodies the server can answer with for one segment
MaxSegRequests == 2     \* segments fetches in flight
MaxInflight == 2        \* fetch requests in flight

Placeholders == 1..NumPlaceholders
Times == 0..MaxTime
Items == 1..NumItems
Audios == 1..NumAudios
SegIdx == 0..MaxIdx
NoIdx == 0 - 2                  \* a curIdx that is no number (undefined, NaN)
Keys == {NoIdx} \cup (0 - 1)..(MaxIdx + 1)  \* shift() asks for curIdx +- 1 unchecked
NoKey == 0 - 3
NoValue == [kind |-> "none"]
contextRange == 6       \* segments shown before and after the current one
scrollAmount == 6       \* segments scrollContext moves by
Tolerance == 2          \* findSegmentIndex: 0.1 s, in ticks of 0.05 s
NotLoaded == [loaded |-> FALSE, starts |-> <<>>]
NoContext == <<>>
Failures == {"network_error", "not_json", "no_segments"}

(***************************************************************************)
(* Program constants                                                       *)
(***************************************************************************)
concurrentLoads == 3

VARIABLES
    \* ---- results.js audioQueue ----
    queue,          \* audioQueue.queue: sequence of entries
    processing,     \* audioQueue.processing
    activeLoads,    \* audioQueue.activeLoads
    timers,         \* pending setTimeout(() => this.processQueue(), 0) callbacks
    replaced,       \* replaced[p]: placeholder p was replaced by an audio container
    audio,          \* audio[p]: load state of the audio element that replaced p
    tracked,        \* tracked[p]: processQueue attached its listeners to that element
    lastRemoved,    \* the entries the latest step shifted off the queue, in order
    added,          \* the placeholders passed to add() that no player has replaced yet
    \* ---- textSync (results.js) ----
    segments,               \* start times of the source's segments, the array updateHighlight gets
    activeContextContainer, \* textSync.activeContextContainer (0: null), by result item
    currentSegmentIndex,    \* textSync.currentSegmentIndex (0-based, -1: none)
    lastTime,               \* currentTime of the latest updateHighlight call (-1: none)
    highlighted,            \* <<result item, data-index>> of the spans with class active-segment
    \* ---- audioManager (results.js and the lightweight client) ----
    client,                 \* which script the page runs: "results" or "light"
    playing,                \* registered audio elements that are playing (paused = false)
    currentlyPlaying,       \* audioManager.currentlyPlaying / .current (0: null)
    events,                 \* events[a]: play/pause/ended events queued on element a
    \* ---- segment cache and context of the lightweight client ----
    segmentCache,           \* segmentCache[k]: the stored response body, or NoValue
    inflight,               \* bag of the fetch requests awaiting their response
    ctxLoaded,              \* ctxLoaded[item]: dataset.ctxLoaded = '1'
    curIdx,                 \* curIdx of the context attached to the item
    shown,                  \* the segment the item's context displays
    buttonsLive,            \* the prev/next buttons of the context have listeners
    lastCall,               \* key of the fetchSegmentByIdx call of the latest step
    lastResolved,           \* the value that call resolved to at once, or NoValue
    windowLookups,          \* uncached lookups since the debounce window opened
    windowRequests,         \* requests issued since the debounce window opened
    lastArrival,            \* the by_idx response the latest step delivered, or NoArrival
    \* ---- source segments and result-item context (results.js) ----
    sourceSegments,         \* sourceSegments[source]: [loaded, starts]
    segRequests,            \* initializeSourceSegments fetches awaiting their response
    dataStart,              \* dataStart[item]: dataset.start, in ticks
    dataCurrentIndex,       \* dataCurrentIndex[item]: dataset.currentIndex, NoIdx when unset
    context,                \* context[item]: the context passage rendered in the item
    escaped,                \* an exception left a promise chain unhandled
    lastOutcome,            \* outcome of the segments response of the latest step
    lastCalled,             \* the context function the latest step called, or "none"
    \* ---- progressive search polling (results.js) ----
    pollRequests,           \* checkForMoreResults fetches awaiting their response
    pollTimers,             \* pending setTimeout(checkForMoreResults, 1000) timers
    polls,                  \* calls of checkForMoreResults so far
    searchStartTime,        \* window.searchStartTime is set
    durationSpans,          \* .duration spans inside the .stats element
    shownPagination,        \* the pagination data updatePagination rendered last
    paginationControls,     \* the children of .pagination-controls, in order
    statsText,              \* what the text of the .stats element says
    redirected,             \* window.location.href was assigned: the page is left
    lastPoll,               \* outcome of the latest poll response
    pageEvent,              \* the event the latest step of the search page handled
    \* ---- audioQueue of the lightweight client ----
    lightQ,                 \* audioQueue.q: the placeholders waiting, in order
    lightActive,            \* audioQueue.active
    loadAudioCalls,         \* loadAudioCalls[p]: calls of loadAudio(p) so far
    lightLoading,           \* lightLoading[p]: audio elements made for p that load
    lightLoaded             \* lightLoaded[p]: audio elements made for p that have loaded

queueVars == <<queue, processing, activeLoads, timers, replaced, audio, tracked,
               lastRemoved, added>>

syncVars == <<segments, activeContextContainer, currentSegmentIndex, lastTime, highlighted>>
audioVars == <<client, playing, currentlyPlaying, events>>

cacheVars == <<segmentCache, inflight, ctxLoaded, curIdx, shown, buttonsLive,
               lastCall, lastResolved, windowLookups, windowRequests, lastArrival>>

segsVars == <<sourceSegments, segRequests, dataStart, dataCurrentIndex, context,
              escaped, lastOutcome, lastCalled>>

pollVars == <<pollRequests, pollTimers, polls, searchStartTime, durationSpans,
              shownPagination, paginationControls, statsText, redirected, lastPoll,
              pageEvent>>

renderVars == <<shownPagination, paginationControls, statsText>>

lightVars == <<lightQ, lightActive, loadAudioCalls, lightLoading, lightLoaded>>

vars == <<queueVars, syncVars, audioVars, cacheVars, segsVars, pollVars, lightVars>>

(***************************************************************************)
(* The state of each part of the page right after the script has loaded    *)
(***************************************************************************)

InitQueueVars ==
    /\ queue = <<>>
    /\ processing = FALSE
    /\ activeLoads = 0
    /\ timers = 0
    /\ replaced = [p \in Placeholders |-> FALSE]
    /\ audio = [p \in Placeholders |-> "none"]
    /\ tracked = [p \in Placeholders |-> FALSE]
    /\ lastRemoved = <<>>
    /\ added = {}

InitSyncIdle ==
    /\ segments = <<>>
    /\ activeContextContainer = 0
    /\ currentSegmentIndex = -1
    /\ lastTime = -1
    /\ highlighted = {}

InitAudioIdle ==
    /\ client = "results"
    /\ playing = {}
    /\ currentlyPlaying = 0
    /\ events = [a \in Audios |-> <<>>]

NoArrival == [item |-> 0, body |-> NoValue, attached |-> FALSE]

InitCacheIdle ==
    /\ lastArrival = NoArrival
    /\ segmentCache = [k \in Keys |-> NoValue]
    /\ inflight = EmptyBag
    /\ ctxLoaded = [item \in Items |-> FALSE]
    /\ curIdx = [item \in Items |-> NoIdx]
    /\ shown = [item \in Items |-> NoValue]
    /\ buttonsLive = [item \in Items |-> FALSE]
    /\ lastCall = NoKey
    /\ lastResolved = NoValue
    /\ windowLookups = 0
    /\ windowRequests = 0

InitSegsIdle ==
    /\ sourceSegments = NotLoaded
    /\ segRequests = 0
    /\ dataStart = [item \in Items |-> 0]
    /\ dataCurrentIndex = [item \in Items |-> NoIdx]
    /\ context = [item \in Items |-> NoContext]
    /\ escaped = FALSE
    /\ lastOutcome = "none"
    /\ lastCalled = "none"

NoPagination == [page |-> 0, total_pages |-> 0, total_results |-> 0,
                 still_searching |-> FALSE, per_page |-> 0,
                 has_prev |-> FALSE, has_next |-> FALSE]

\* The .stats text as the server rendered it.
NoStats == [kind |-> "server"]

InitLightIdle ==
    /\ lightQ = <<>>
    /\ lightActive = 0
    /\ loadAudioCalls = [p \in Placeholders |-> 0]
    /\ lightLoading = [p \in Placeholders |-> 0]
    /\ lightLoaded = [p \in Placeholders |-> 0]

InitPollIdle ==
    /\ pollRequests = 0
    /\ pollTimers = 0
    /\ polls = 0
    /\ searchStartTime = FALSE
    /\ durationSpans = 0
    /\ shownPagination = NoPagination
    /\ paginationControls = <<>>
    /\ statsText = NoStats
    /\ redirected = FALSE
    /\ lastPoll = "none"
    /\ pageEvent = "none"

(***************************************************************************)
(* results.js audioQueue                                                   *)
(***************************************************************************)

\* data-source / data-start of a placeholder (read by add); the last
\* placeholder carries the same source and start as the first one.
PlaceholderData(p) ==
    LET k == IF p = NumPlaceholders /\ p > 1 THEN 1 ELSE p
    IN [source |-> 1, start |-> k]

\* Arrival stamp of a pushed entry: later than every entry now in the queue.
RECURSIVE MaxArrival(_)
MaxArrival(q) ==
    IF q = <<>> THEN 0
    ELSE LET m == MaxArrival(Tail(q))
         IN IF Head(q).arrival > m THEN Head(q).arrival ELSE m
NextArrival(q) == MaxArrival(q) + 1

\* A queue that is left in push order.
SortByArrivalOnly(q) == q

\* this.queue.sort((a, b) => b.priority - a.priority): Array.prototype.sort is
\* stable, so entries of equal priority keep their relative order.
SortByPriority(q) ==
    SelectSeq(q, LAMBDA e : e.priority = 1) \o SelectSeq(q, LAMBDA e : e.priority = 0)

\* loop condition of processQueue: this.activeLoads < this.concurrentLoads
HasCapacity(n) == n < concurrentLoads

\* item.placeholder.isConnected && classList.contains('audio-placeholder')
StillPlaceholder(S, p) == ~S.replaced[p]

\* The state processQueue works on, as a record.
QueueState ==
    [queue |-> queue, processing |-> processing, activeLoads |-> activeLoads,
     timers |-> timers, replaced |-> replaced, audio |-> audio,
     tracked |-> tracked, removed |-> <<>>, added |-> added]

\* The else branch of the loop that keeps the slot it took.
SkipEntryKeepsSlot(T) ==
    [T EXCEPT !.activeLoads = @ + 1, !.timers = @ + 1]

\* The else branch of the loop, for an entry whose placeholder is gone:
\* activeLoads++ before the test and activeLoads-- here cancel, and a
\* processQueue timeout is set.
SkipEntry(T) ==
    [T EXCEPT !.timers = @ + 1]

\* One iteration of the while loop of processQueue, repeated while it applies.
\* A live placeholder is replaced by a loading audio element whose
\* loadedmetadata/error listeners belong to the queue; a replaced one is
\* skipped: activeLoads++ then activeLoads--, and a processQueue timeout.
RECURSIVE Drain(_)
Drain(S) ==
    IF HasCapacity(S.activeLoads) /\ Len(S.queue) > 0
    THEN LET item == Head(S.queue)
             p == item.placeholder
             T == [S EXCEPT !.queue = Tail(@), !.removed = Append(@, item)]
         IN IF StillPlaceholder(S, p)
            THEN Drain([T EXCEPT !.activeLoads = @ + 1,
                                 !.replaced[p] = TRUE,
                                 !.audio[p] = "loading",
                                 !.tracked[p] = TRUE])
            ELSE Drain(SkipEntry(T))
    ELSE S

\* audioQueue.processQueue
ProcessQueue(S) ==
    IF Len(S.queue) = 0
    THEN [S EXCEPT !.processing = FALSE]
    ELSE Drain([S EXCEPT !.processing = TRUE])

\* Writes the record back to the variables.
Commit(S) ==
    /\ queue' = S.queue
    /\ processing' = S.processing
    /\ activeLoads' = S.activeLoads
    /\ timers' = S.timers
    /\ replaced' = S.replaced
    /\ audio' = S.audio
    /\ tracked' = S.tracked
    /\ lastRemoved' = S.removed
    /\ added' = {p \in S.added : ~S.replaced[p]}

\* Placeholders 2 .. NumPlaceholders-1 carry distinct data and are otherwise
\* alike: they are numbered in the order in which the page first uses them.
InQueue(p) == \E i \in 1..Len(queue) : queue[i].placeholder = p
FirstUseInOrder(p) ==
    IF p <= 2 \/ p = NumPlaceholders
    THEN TRUE
    ELSE replaced[p - 1] \/ InQueue(p - 1)

\* Some entry of q carries the source and start of placeholder p.
SameDataQueued(q, p) ==
    \E i \in 1..Len(q) :
       /\ q[i].source = PlaceholderData(p).source
       /\ q[i].start = PlaceholderData(p).start

\* The duplicate test of add() that finds nothing.
ExistingItemNever(q, source, start) == FALSE

\* this.queue.find(item => item.source === source && item.start === start)
ExistingItem(q, source, start) ==
    \E i \in 1..Len(q) : q[i].source = source /\ q[i].start = start

\* audioQueue.add(placeholder) on state S; visible is what
\* isInViewport(placeholder) returns.
AddResult(S, p, visible) ==
    LET d == PlaceholderData(p)
        entry == [placeholder |-> p, source |-> d.source, start |-> d.start,
                  priority |-> IF visible THEN 1 ELSE 0,
                  arrival |-> NextArrival(S.queue)]
        T == [S EXCEPT !.queue = SortByPriority(Append(S.queue, entry))]
    IN IF ExistingItem(S.queue, d.source, d.start)
       THEN S
       ELSE IF ~S.processing THEN ProcessQueue(T) ELSE T

\* A caller passes placeholder p to audioQueue.add; the callers pass elements
\* that are connected .audio-placeholder nodes.
Add(p, visible) ==
    /\ ~replaced[p]
    /\ FirstUseInOrder(p)
    /\ \E R \in {AddResult([QueueState EXCEPT !.added = @ \cup {p}], p, visible)} :
          Commit(R)

\* setTimeout(() => this.processQueue(), 0) fires.
ProcessQueueTimeout ==
    /\ timers > 0
    /\ \E R \in {ProcessQueue([QueueState EXCEPT !.timers = @ - 1])} : Commit(R)

\* A listener that frees the slot and schedules nothing.
QueueListenerNoTimeout(p) ==
    /\ tracked[p]
    /\ activeLoads' = activeLoads - 1
    /\ UNCHANGED timers

\* The queue's listener on an audio element: this.activeLoads--, then
\* setTimeout(processQueue). Elements loaded directly have no such listener.
QueueListener(p) ==
    /\ tracked[p]
    /\ activeLoads' = activeLoads - 1
    /\ timers' = timers + 1

\* The load of the audio element completes: 'loadedmetadata' fires on it.
LoadedMetadata(p) ==
    /\ audio[p] = "loading"
    /\ audio' = [audio EXCEPT ![p] = "loaded"]
    /\ QueueListener(p)
    /\ lastRemoved' = <<>>
    /\ UNCHANGED added
    /\ UNCHANGED <<queue, processing, replaced, tracked>>

\* The load of the audio element fails: 'error' fires on it.
LoadError(p) ==
    /\ audio[p] = "loading"
    /\ audio' = [audio EXCEPT ![p] = "dead"]
    /\ QueueListener(p)
    /\ lastRemoved' = <<>>
    /\ UNCHANGED added
    /\ UNCHANGED <<queue, processing, replaced, tracked>>

\* A further event on an element whose load is complete: 'error' of a fatal
\* network or decode error during playback, or the 'loadedmetadata'/'error' of
\* the reload playSegmentAudio starts (audio.src = newSrc; audio.load()). The
\* queue's listeners are still attached and run again. One such event per
\* element is modelled.
LateLoadEvent(p) ==
    /\ audio[p] = "loaded"
    /\ audio' = [audio EXCEPT ![p] = "dead"]
    /\ QueueListener(p)
    /\ lastRemoved' = <<>>
    /\ UNCHANGED added
    /\ UNCHANGED <<queue, processing, replaced, tracked>>

\* loadAudio(placeholder) called directly (toggleSource for the header player,
\* playSegmentAudio for a result item's placeholder): no queue listeners.
LoadAudioDirect(p) ==
    /\ ~replaced[p]
    /\ FirstUseInOrder(p)
    /\ replaced' = [replaced EXCEPT ![p] = TRUE]
    /\ audio' = [audio EXCEPT ![p] = "direct"]
    /\ lastRemoved' = <<>>
    /\ added' = added \ {p}
    /\ UNCHANGED <<queue, processing, activeLoads, timers, tracked>>

(***************************************************************************)
(* results.js textSync                                                     *)
(***************************************************************************)

\* Segment lists a source can have: strictly increasing start times.
RECURSIVE Increasing(_)
Increasing(q) ==
    IF Len(q) <= 1 THEN TRUE
    ELSE q[1] < q[2] /\ Increasing(Tail(q))
SegmentLists ==
    UNION {{q \in [1..n -> Times] : Increasing(q)} : n \in 0..MaxSegments}

\* The for loop of updateHighlight from index i (0-based): the first i whose
\* segment has no successor, or whose range [start, next start) holds t;
\* -1 when the loop ends without a match.
RECURSIVE ScanSegments(_, _, _)
ScanSegments(t, segs, i) ==
    IF i >= Len(segs) THEN -1
    ELSE IF i + 2 > Len(segs) \/ (t >= segs[i + 1] /\ t < segs[i + 2])
         THEN i
         ELSE ScanSegments(t, segs, i + 1)

\* textSync and the highlighted spans as a record, for the handlers that call
\* into it.
SyncState ==
    [activeContextContainer |-> activeContextContainer,
     currentSegmentIndex |-> currentSegmentIndex,
     highlighted |-> highlighted]

\* classList.remove('active-segment') on every span of one context container.
ClearHighlights(H, container) == {span \in H : span[1] # container}

\* textSync.highlightSegment(index): the highlights of the active container
\* are removed and its span with that data-index, if it has one, gets the
\* class; the spans of other containers are not touched.
HighlightSegment(M, index) ==
    IF M.activeContextContainer = 0 THEN M
    ELSE [M EXCEPT
            !.highlighted =
                ClearHighlights(@, M.activeContextContainer) \cup
                (IF index \in 0..(Len(segments) - 1)
                 THEN {<<M.activeContextContainer, index>>} ELSE {}),
            !.currentSegmentIndex = index]

\* textSync.stop()
TextSyncStop(M) ==
    [M EXCEPT !.highlighted = IF M.activeContextContainer # 0
                              THEN ClearHighlights(@, M.activeContextContainer)
                              ELSE @,
              !.activeContextContainer = 0,
              !.currentSegmentIndex = -1]

\* textSync.start(resultItem, contextContainer, initialSegmentIndex), which
\* ends in highlightSegment(initialSegmentIndex).
TextSyncStart(M, item, index) ==
    HighlightSegment(
        [M EXCEPT !.activeContextContainer = item, !.currentSegmentIndex = index], index)

\* textSync.updateHighlight(currentTime, segments)
UpdateHighlight(t) ==
    /\ lastTime' = t
    /\ IF Len(segments) = 0 \/ activeContextContainer = 0
       THEN UNCHANGED <<currentSegmentIndex, highlighted>>
       ELSE LET i == ScanSegments(t, segments, 0)
            IN IF i >= 0 /\ i # currentSegmentIndex
               THEN \E R \in {HighlightSegment(SyncState, i)} :
                       /\ currentSegmentIndex' = R.currentSegmentIndex
                       /\ highlighted' = R.highlighted
               ELSE UNCHANGED <<currentSegmentIndex, highlighted>>
    /\ UNCHANGED <<segments, activeContextContainer>>

\* A segment click starts text sync on a result item (textSync.start).
StartSync(item, index) ==
    /\ index < Len(segments)
    /\ activeContextContainer' = item
    /\ currentSegmentIndex' = index
    /\ highlighted' = TextSyncStart(SyncState, item, index).highlighted
    /\ lastTime' = -1
    /\ UNCHANGED segments

\* Playback pauses or ends (textSync.stop).
StopSync ==
    /\ activeContextContainer # 0
    /\ activeContextContainer' = 0
    /\ currentSegmentIndex' = -1
    /\ highlighted' = TextSyncStop(SyncState).highlighted
    /\ lastTime' = -1
    /\ UNCHANGED segments

InitSync ==
    /\ segments \in SegmentLists
    /\ activeContextContainer = 0
    /\ currentSegmentIndex = -1
    /\ lastTime = -1
    /\ highlighted = {}
    /\ InitQueueVars
    /\ InitAudioIdle
    /\ InitCacheIdle
    /\ InitSegsIdle
    /\ InitPollIdle
    /\ InitLightIdle

NextSync ==
    \/ \E item \in Items, index \in 0..(MaxSegments - 1) :
          StartSync(item, index) /\ UNCHANGED <<queueVars, audioVars, cacheVars, segsVars, pollVars, lightVars>>
    \/ StopSync /\ UNCHANGED <<queueVars, audioVars, cacheVars, segsVars, pollVars, lightVars>>
    \/ \E t \in Times : UpdateHighlight(t) /\ UNCHANGED <<queueVars, audioVars, cacheVars, segsVars, pollVars, lightVars>>

SpecSync == InitSync /\ [][NextSync]_vars

\* C5: after updateHighlight(t, segments) with text sync active, the highlighted
\* index i is the segment whose range holds t: segments[i].start <= t and
\* t < segments[i+1].start when i is not the last segment.
C5_HighlightHoldsTime ==
    (lastTime >= 0 /\ activeContextContainer # 0 /\ Len(segments) > 0)
        => /\ currentSegmentIndex \in 0..(Len(segments) - 1)
           /\ segments[currentSegmentIndex + 1] <= lastTime
           /\ (currentSegmentIndex + 2 <= Len(segments)
                  => lastTime < segments[currentSegmentIndex + 2])

(***************************************************************************)
(* audioManager: results.js and the lightweight client                     *)
(***************************************************************************)

\* The state the media handlers read and write, as a record.
AudioState ==
    [playing |-> playing, currentlyPlaying |-> currentlyPlaying, events |-> events,
     activeContextContainer |-> activeContextContainer,
     currentSegmentIndex |-> currentSegmentIndex,
     highlighted |-> highlighted]

\* HTMLMediaElement.pause(): a playing element stops at once and a pause event
\* is queued on it; on a paused element nothing happens.
PauseElement(M, a) ==
    IF a \in M.playing
    THEN [M EXCEPT !.playing = @ \ {a}, !.events[a] = Append(@, "pause")]
    ELSE M

\* HTMLMediaElement.play(): a paused element starts at once and a play event
\* is queued on it; on a playing element nothing happens.
PlayElement(M, a) ==
    IF a \notin M.playing
    THEN [M EXCEPT !.playing = @ \cup {a}, !.events[a] = Append(@, "play")]
    ELSE M

\* results.js: the play listener of registerAudio without the pause of the
\* element that was playing before.
OnPlayKeepsPrevious(M, a) ==
    [M EXCEPT !.currentlyPlaying = a]

\* results.js: the play listener of registerAudio without the assignment to
\* currentlyPlaying.
OnPlayForgetsCurrent(M, a) ==
    LET c == M.currentlyPlaying
    IN IF c # 0 /\ c # a THEN TextSyncStop(PauseElement(M, c)) ELSE M

\* results.js: the play listener of audioManager.registerAudio.
OnPlay(M, a) ==
    LET c == M.currentlyPlaying
        P == IF c # 0 /\ c # a THEN TextSyncStop(PauseElement(M, c)) ELSE M
    IN [P EXCEPT !.currentlyPlaying = a]

\* results.js: the ended listener.
OnEnded(M, a) ==
    IF M.currentlyPlaying = a
    THEN TextSyncStop([M EXCEPT !.currentlyPlaying = 0])
    ELSE M

\* results.js: the pause listener.
OnPause(M, a) ==
    IF M.currentlyPlaying = a THEN TextSyncStop(M) ELSE M

\* results.js: audioManager.stopAll().
StopAll(M) ==
    IF M.currentlyPlaying # 0
    THEN TextSyncStop([PauseElement(M, M.currentlyPlaying) EXCEPT !.currentlyPlaying = 0])
    ELSE M

\* Lightweight client: the play listener of audioManager.register.
LightOnPlay(M, a) ==
    LET c == M.currentlyPlaying
        P == IF c # 0 /\ c # a THEN PauseElement(M, c) ELSE M
    IN [P EXCEPT !.currentlyPlaying = a]

\* Lightweight client: the clear listener, bound to both ended and pause.
LightClear(M, a) ==
    IF M.currentlyPlaying = a THEN [M EXCEPT !.currentlyPlaying = 0] ELSE M

\* Lightweight client: audioManager.stop().
LightStop(M) ==
    IF M.currentlyPlaying # 0 THEN PauseElement(M, M.currentlyPlaying) ELSE M

\* The listener the page's script runs for event e on element a.
Handle(M, a, e) ==
    IF client = "results"
    THEN CASE e = "play" -> OnPlay(M, a)
           [] e = "pause" -> OnPause(M, a)
           [] e = "ended" -> OnEnded(M, a)
    ELSE CASE e = "play" -> LightOnPlay(M, a)
           [] e = "pause" -> LightClear(M, a)
           [] e = "ended" -> LightClear(M, a)

CommitAudio(M) ==
    /\ \A a \in Audios : Len(M.events[a]) <= MaxPending
    /\ playing' = M.playing
    /\ currentlyPlaying' = M.currentlyPlaying
    /\ events' = M.events
    /\ activeContextContainer' = M.activeContextContainer
    /\ currentSegmentIndex' = M.currentSegmentIndex
    /\ highlighted' = M.highlighted
    /\ lastTime' = IF M.activeContextContainer = activeContextContainer
                      /\ M.currentSegmentIndex = currentSegmentIndex
                   THEN lastTime ELSE -1
    /\ UNCHANGED <<client, segments>>

\* The user presses play on the native controls of element a.
NativePlay(a) ==
    /\ a \notin playing
    /\ \E R \in {PlayElement(AudioState, a)} : CommitAudio(R)

\* The user presses pause on the native controls of element a.
NativePause(a) ==
    /\ a \in playing
    /\ \E R \in {PauseElement(AudioState, a)} : CommitAudio(R)

\* Playback of element a reaches the end of the media: the element stops and
\* the browser queues pause and ended on it.
PlaybackEnds(a) ==
    /\ a \in playing
    /\ \E R \in {[AudioState EXCEPT !.playing = @ \ {a},
                                    !.events[a] = @ \o <<"pause", "ended">>]} :
          CommitAudio(R)

\* results.js: click on a context segment of a result item whose source has
\* header audio a.
SegmentClick(item, index, a) ==
    /\ client = "results"
    /\ index < Len(segments)
    /\ \E R \in {PlayElement(TextSyncStart(StopAll(AudioState), item, index), a)} :
          CommitAudio(R)

\* playFromSourceAudio(source, startTime) with header audio a.
PlayFromSourceAudio(a) ==
    \E R \in {IF client = "results"
              THEN PlayElement(StopAll(AudioState), a)
              ELSE PlayElement(LightStop(AudioState), a)} :
       CommitAudio(R)

\* results.js loadAudio: the play listener of a source header's audio runs
\* before the one of audioManager and starts text sync on the result item and
\* segment nearest to the playback position (item 0: it returns early, or the
\* element is no header audio).
HeaderPlayTargets ==
    {[item |-> 0, index |-> 0 - 1]} \cup
    {[item |-> item, index |-> index] : item \in Items, index \in 0..(Len(segments) - 1)}

HeaderOnPlay(M, target) ==
    IF target.item # 0 THEN TextSyncStart(M, target.item, target.index) ELSE M

\* The browser dispatches the oldest event queued on element a to its listeners.
Dispatch(a) ==
    /\ events[a] # <<>>
    /\ LET e == Head(events[a])
           M == [AudioState EXCEPT !.events[a] = Tail(@)]
       IN \E target \in IF client = "results" /\ e = "play"
                        THEN HeaderPlayTargets
                        ELSE {[item |-> 0, index |-> 0 - 1]} :
             \E R \in {Handle(HeaderOnPlay(M, target), a, e)} : CommitAudio(R)

InitAudio ==
    /\ client \in {"results", "light"}
    /\ playing = {}
    /\ currentlyPlaying = 0
    /\ events = [a \in Audios |-> <<>>]
    /\ segments \in {<<>>, <<0, 2>>}
    /\ activeContextContainer = 0
    /\ currentSegmentIndex = -1
    /\ lastTime = -1
    /\ highlighted = {}
    /\ InitQueueVars
    /\ InitCacheIdle
    /\ InitSegsIdle
    /\ InitPollIdle
    /\ InitLightIdle

NextAudio ==
    \/ \E a \in Audios : NativePlay(a) /\ UNCHANGED <<queueVars, cacheVars, segsVars, pollVars, lightVars>>
    \/ \E a \in Audios : NativePause(a) /\ UNCHANGED <<queueVars, cacheVars, segsVars, pollVars, lightVars>>
    \/ \E a \in Audios : PlaybackEnds(a) /\ UNCHANGED <<queueVars, cacheVars, segsVars, pollVars, lightVars>>
    \/ \E item \in Items, index \in 0..(MaxSegments - 1), a \in Audios :
          SegmentClick(item, index, a) /\ UNCHANGED <<queueVars, cacheVars, segsVars, pollVars, lightVars>>
    \/ \E a \in Audios : PlayFromSourceAudio(a) /\ UNCHANGED <<queueVars, cacheVars, segsVars, pollVars, lightVars>>
    \/ \E a \in Audios : Dispatch(a) /\ UNCHANGED <<queueVars, cacheVars, segsVars, pollVars, lightVars>>

SpecAudio == InitAudio /\ [][NextAudio]_vars

NoEventPending == \A a \in Audios : events[a] = <<>>

C15_PlayListener ==
    [][\A b \in Audios :
          (/\ client = "results"
           /\ events[b] # <<>>
           /\ Head(events[b]) = "play"
           /\ events'[b] = Tail(events[b]))
          => /\ currentlyPlaying' = b
             /\ IF currentlyPlaying \notin {0, b}
                THEN /\ playing' = playing \ {currentlyPlaying}
                     /\ events'[currentlyPlaying] =
                           IF currentlyPlaying \in playing
                           THEN Append(events[currentlyPlaying], "pause")
                           ELSE events[currentlyPlaying]
                ELSE /\ playing' = playing
                     /\ \A a \in Audios \ {b} : events'[a] = events[a]]_vars

\* Element 2 started while element 1 played; its play event was dispatched:
\* element 1 is paused, its pause event waits, and currentlyPlaying is 2.
C15_Witness ==
    /\ client = "results"
    /\ currentlyPlaying = 2
    /\ playing = {2}
    /\ events[1] = <<"pause">>
    /\ events[2] = <<>>

\* C28: in every reachable state at most one context segment of the page
\* carries the active-segment highlight, whatever the order of segment clicks
\* on the result items, of the play, pause and ended events and of the
\* textSync.start and stop calls they make.
C28_OneHighlight == Cardinality(highlighted) <= 1

(***************************************************************************)
(* Lightweight client: segment cache, result-item click, buildContext      *)
(***************************************************************************)

\* The JSON bodies the server can answer a request for segment k with: the
\* segment, or an error object (fetch resolves whatever the HTTP status is).
Bodies(k) ==
    {[kind |-> "error"]} \cup
    IF k \in SegIdx
    THEN {[kind |-> "segment", segment_index |-> k, text |-> v] : v \in 1..NumTexts}
    ELSE {}

\* s.segment_index of a response body (undefined on an error body).
SegmentIndexOf(body) ==
    IF body.kind = "segment" THEN body.segment_index ELSE NoIdx

\* The requests for segment k in flight.
RequestsFor(reqs, k) ==
    BagCardinality([r \in {x \in BagToSet(reqs) : x.key = k} |-> reqs[r]])
InFlightCount(k) == RequestsFor(inflight, k)

Single(r) == SetToBag({r})

\* fetch() that joins a request already in flight for the same key.
IssueRequestCoalesced(reqs, r) ==
    IF \E x \in BagToSet(reqs) : x.kind = r.kind /\ x.key = r.key
    THEN reqs ELSE reqs (+) Single(r)

\* fetch() that joins the request of the current debounce window.
IssueRequestBatched(reqs, r) ==
    IF windowRequests > 0 THEN reqs ELSE reqs (+) Single(r)

\* fetch(url): one more request in flight.
IssueRequest(reqs, r) == reqs (+) Single(r)

\* The cache test of fetchSegmentByIdx that never hits.
CachedNever(k) == FALSE

\* if (segmentCache[k]): response bodies are JSON objects, which are truthy.
Cached(k) == segmentCache[k] # NoValue

\* The .then callback of shift() leaving the displayed segment as it is.
ApplyShiftKeepsShown(item, s) ==
    /\ curIdx' = [curIdx EXCEPT ![item] = SegmentIndexOf(s)]
    /\ shown' = shown
    /\ buttonsLive' = [buttonsLive EXCEPT ![item] = FALSE]

\* The .then callback of shift(): the response s replaces the displayed
\* segment and curIdx; innerHTML drops the old buttons and their listeners.
ApplyShift(item, s) ==
    /\ curIdx' = [curIdx EXCEPT ![item] = SegmentIndexOf(s)]
    /\ shown' = [shown EXCEPT ![item] = s]
    /\ buttonsLive' = [buttonsLive EXCEPT ![item] = FALSE]

CountWindow ==
    /\ windowLookups < MaxInflight
    /\ windowLookups' = windowLookups + 1
    /\ windowRequests' = windowRequests + (BagCardinality(inflight') - BagCardinality(inflight))

\* Click on a result item: fetchSegmentByChar unless the context is loaded.
ItemClick(item) ==
    /\ ~ctxLoaded[item]
    /\ BagCardinality(inflight) < MaxInflight
    /\ inflight' = IssueRequest(inflight, [kind |-> "char", key |-> NoKey,
                                           item |-> item, attached |-> TRUE])
    /\ CountWindow
    /\ lastCall' = NoKey /\ lastResolved' = NoValue /\ lastArrival' = NoArrival
    /\ UNCHANGED <<segmentCache, ctxLoaded, curIdx, shown, buttonsLive>>

\* The response of fetchSegmentByChar arrives: buildContext(item, seg) puts a
\* new context in place of the old one, whose pending shifts lose their
\* display, and ctxLoaded is set.
CharResponse(r, seg) ==
    /\ r.kind = "char"
    /\ LET item == r.item
           rest == inflight (-) Single(r)
       IN /\ inflight' = BagOfAll(LAMBDA x : IF x.kind = "idx" /\ x.item = item
                                             THEN [x EXCEPT !.attached = FALSE] ELSE x,
                                  rest)
          /\ curIdx' = [curIdx EXCEPT ![item] = SegmentIndexOf(seg)]
          /\ shown' = [shown EXCEPT ![item] = seg]
          /\ buttonsLive' = [buttonsLive EXCEPT ![item] = TRUE]
          /\ ctxLoaded' = [ctxLoaded EXCEPT ![item] = TRUE]
    /\ lastCall' = NoKey /\ lastResolved' = NoValue /\ lastArrival' = NoArrival
    /\ UNCHANGED <<segmentCache, windowLookups, windowRequests>>

\* Click on the prev (delta = -1) or next (delta = +1) button: shift(delta),
\* which calls fetchSegmentByIdx(epi, curIdx + delta).
Shift(item, delta) ==
    /\ buttonsLive[item]
    /\ LET k == IF curIdx[item] = NoIdx THEN NoIdx ELSE curIdx[item] + delta
       IN /\ lastCall' = k
          /\ IF Cached(k)
             THEN \* Promise.resolve(segmentCache[k]).then(...)
                  /\ lastResolved' = segmentCache[k]
                  /\ ApplyShift(item, segmentCache[k])
                  /\ UNCHANGED <<inflight, windowLookups, windowRequests>>
             ELSE /\ BagCardinality(inflight) < MaxInflight
                  /\ lastResolved' = NoValue
                  /\ inflight' = IssueRequest(inflight, [kind |-> "idx", key |-> k,
                                                         item |-> item, attached |-> TRUE])
                  /\ CountWindow
                  /\ UNCHANGED <<curIdx, shown, buttonsLive>>
    /\ lastArrival' = NoArrival
    /\ UNCHANGED <<segmentCache, ctxLoaded>>

\* The response of a by_idx request arrives with body j: it is stored under
\* the key, then the shift callback shows it.
IdxResponse(r, j) ==
    /\ r.kind = "idx"
    /\ j \in Bodies(r.key)
    /\ segmentCache' = [segmentCache EXCEPT ![r.key] = j]
    /\ inflight' = inflight (-) Single(r)
    /\ IF r.attached
       THEN ApplyShift(r.item, j)
       ELSE UNCHANGED <<curIdx, shown, buttonsLive>>
    /\ lastCall' = NoKey /\ lastResolved' = NoValue
    /\ lastArrival' = [item |-> r.item, body |-> j, attached |-> r.attached]
    /\ UNCHANGED <<ctxLoaded, windowLookups, windowRequests>>

\* A request fails (network error, or a body r.json() cannot parse): the
\* promise rejects and no callback of the chain runs.
RequestFails(r) ==
    /\ inflight' = inflight (-) Single(r)
    /\ lastCall' = NoKey /\ lastResolved' = NoValue /\ lastArrival' = NoArrival
    /\ UNCHANGED <<segmentCache, ctxLoaded, curIdx, shown, buttonsLive,
                   windowLookups, windowRequests>>

\* The debounce window the lookups are counted in elapses.
WindowElapses ==
    /\ windowLookups > 0
    /\ windowLookups' = 0
    /\ windowRequests' = 0
    /\ lastCall' = NoKey /\ lastResolved' = NoValue /\ lastArrival' = NoArrival
    /\ UNCHANGED <<segmentCache, inflight, ctxLoaded, curIdx, shown, buttonsLive>>

InitCache ==
    /\ InitCacheIdle /\ InitQueueVars /\ InitSyncIdle /\ InitAudioIdle /\ InitSegsIdle
    /\ InitPollIdle
    /\ InitLightIdle

NextCache ==
    \/ \E item \in Items : ItemClick(item) /\ UNCHANGED <<queueVars, syncVars, audioVars, segsVars, pollVars, lightVars>>
    \/ \E r \in BagToSet(inflight), seg \in UNION {Bodies(k) : k \in SegIdx} :
          CharResponse(r, seg) /\ UNCHANGED <<queueVars, syncVars, audioVars, segsVars, pollVars, lightVars>>
    \/ \E item \in Items, delta \in {0 - 1, 1} :
          Shift(item, delta) /\ UNCHANGED <<queueVars, syncVars, audioVars, segsVars, pollVars, lightVars>>
    \/ \E r \in BagToSet(inflight), j \in UNION {Bodies(k) : k \in Keys} :
          IdxResponse(r, j) /\ UNCHANGED <<queueVars, syncVars, audioVars, segsVars, pollVars, lightVars>>
    \/ \E r \in BagToSet(inflight) :
          RequestFails(r) /\ UNCHANGED <<queueVars, syncVars, audioVars, segsVars, pollVars, lightVars>>
    \/ WindowElapses /\ UNCHANGED <<queueVars, syncVars, audioVars, segsVars, pollVars, lightVars>>

SpecCache == InitCache /\ [][NextCache]_vars

\* The prev/next requests of the result item that await their response.
ShiftsOutstanding(item) ==
    BagCardinality([r \in {x \in BagToSet(inflight) : x.kind = "idx" /\ x.item = item}
                      |-> inflight[r]])

C6_OneRequestPerKey == \A k \in Keys : InFlightCount(k) <= 1

\* C6, amended: requests are not coalesced; every fetchSegmentByIdx call for a
\* key that has no stored value issues one more request for that key, also
\* while earlier requests for the key are in flight.
C6_UncachedCallIssuesRequest ==
    [][(lastCall' # NoKey /\ segmentCache[lastCall'] = NoValue)
          => RequestsFor(inflight', lastCall') = RequestsFor(inflight, lastCall') + 1]_vars

C6_Witness == \E k \in Keys : InFlightCount(k) >= 2

\* C7 as stated: the uncached lookups of one debounce window go out as a
\* single request.
C7_OneRequestPerWindow == windowRequests <= 1

\* C7, amended: lookups are not batched; in every window the number of requests
\* issued equals the number of uncached lookups made.
C7_RequestPerLookup == windowRequests = windowLookups

C7_Witness == windowLookups >= 2 /\ windowRequests >= 2

\* C8: a fetchSegmentByIdx call for a key that has a stored value resolves to
\* that value, issues no request and leaves the cache as it is.
C8_CacheHit ==
    [][(lastCall' # NoKey /\ segmentCache[lastCall'] # NoValue)
          => /\ lastResolved' = segmentCache[lastCall']
             /\ inflight' = inflight
             /\ segmentCache' = segmentCache]_vars

C8_Witness ==
    /\ lastCall # NoKey
    /\ lastResolved # NoValue
    /\ \E item \in Items : shown[item] = lastResolved /\ ~buttonsLive[item]

\* C9: once segmentCache holds a value for a key, no step replaces it.
C9_CachedValueKept ==
    [][\A k \in Keys : segmentCache[k] # NoValue => segmentCache'[k] = segmentCache[k]]_vars

(***************************************************************************)
(* results.js: source segments and the context of a result item            *)
(***************************************************************************)

Max(a, b) == IF a > b THEN a ELSE b
Min(a, b) == IF a < b THEN a ELSE b
Abs(a) == IF a < 0 THEN 0 - a ELSE a

\* findSegmentIndex(time, segments): the first index (0-based) whose start is
\* less than 0.1 s from time, -1 when there is none.
RECURSIVE FindFrom(_, _, _)
FindFrom(time, starts, i) ==
    IF i >= Len(starts) THEN 0 - 1
    ELSE IF Abs(starts[i + 1] - time) < Tolerance THEN i
         ELSE FindFrom(time, starts, i + 1)
findSegmentIndex(time, starts) == FindFrom(time, starts, 0)

\* The spans addContextToResult writes into the context container: one per
\* segment from startIdx to endIdx, with its data-index and its class.
RenderContext(currentIndex, length) ==
    LET startIdx == Max(0, currentIndex - contextRange)
        endIdx == Min(length - 1, currentIndex + contextRange)
    IN [k \in 1..(endIdx - startIdx + 1) |->
          LET i == startIdx + k - 1
          IN [index |-> i,
              class |-> IF i < currentIndex THEN "prev-segment"
                        ELSE IF i = currentIndex THEN "current-segment"
                        ELSE "next-segment"]]

\* The items' part of the page, as a record.
ItemsState ==
    [dataStart |-> dataStart, dataCurrentIndex |-> dataCurrentIndex, context |-> context]

\* addContextToResult(resultItem) with sourceSegments[source] = segs.
addContextToResult(C, segs, item) ==
    IF ~segs.loaded THEN C
    ELSE LET currentIndex == findSegmentIndex(C.dataStart[item], segs.starts)
         IN IF currentIndex = 0 - 1 THEN C
            ELSE [C EXCEPT
                    !.dataCurrentIndex[item] = currentIndex,
                    !.context[item] = RenderContext(currentIndex, Len(segs.starts))]

RECURSIVE AddContextToAll(_, _, _)
AddContextToAll(C, segs, item) ==
    IF item > NumItems THEN C
    ELSE AddContextToAll(addContextToResult(C, segs, item), segs, item + 1)

CommitItems(C) ==
    /\ dataStart' = C.dataStart
    /\ dataCurrentIndex' = C.dataCurrentIndex
    /\ context' = C.context

\* updateSegmentContext(resultItem, segment, source)
updateSegmentContext(C, item, start) ==
    addContextToResult([C EXCEPT !.dataStart[item] = start], sourceSegments, item)

\* The test of the response handler with every body passing it.
HasSegmentsAlways(outcome) == TRUE

\* if (data && data.segments)
HasSegments(outcome) == outcome = "ok"

\* A call that sends nothing.
InitializeSourceSegmentsDropped == UNCHANGED segRequests

\* initializeSourceSegments(source, jsonPath): the fetch goes out.
InitializeSourceSegments ==
    /\ segRequests < MaxSegRequests
    /\ segRequests' = segRequests + 1

\* toggleSource opening a source group whose segments are not loaded.
ToggleSource ==
    /\ ~sourceSegments.loaded
    /\ InitializeSourceSegments
    /\ lastOutcome' = "none"
    /\ lastCalled' = "toggleSource"
    /\ UNCHANGED <<sourceSegments, dataStart, dataCurrentIndex, context, escaped>>

\* The response of a segments fetch arrives. A network error rejects fetch, a
\* body that is not JSON rejects response.json(); .catch logs either. A body
\* with segments is stored and every item of the source gets its context.
SegmentsResponse(outcome) ==
    /\ segRequests > 0
    /\ segRequests' = segRequests - 1
    /\ lastOutcome' = outcome
    /\ lastCalled' = "none"
    /\ IF outcome \in {"network_error", "not_json"}
       THEN UNCHANGED <<sourceSegments, dataStart, dataCurrentIndex, context>>
       ELSE IF HasSegments(outcome)
            THEN LET segs == [loaded |-> TRUE, starts |-> segments]
                 IN /\ sourceSegments' = segs
                    /\ CommitItems(AddContextToAll(ItemsState, segs, 1))
            ELSE UNCHANGED <<sourceSegments, dataStart, dataCurrentIndex, context>>
    /\ UNCHANGED escaped

\* prevSegment(button) and nextSegment(button) of a result item.
StepSegment(item, delta) ==
    /\ lastOutcome' = "none"
    /\ lastCalled' = IF delta < 0 THEN "prevSegment" ELSE "nextSegment"
    /\ UNCHANGED <<sourceSegments, escaped>>
    /\ IF ~sourceSegments.loaded
       THEN /\ InitializeSourceSegments
            /\ UNCHANGED <<dataStart, dataCurrentIndex, context>>
       ELSE LET currentIndex == dataCurrentIndex[item]
                inside == IF delta < 0 THEN currentIndex > 0
                          ELSE currentIndex < Len(sourceSegments.starts) - 1
            IN /\ IF currentIndex # NoIdx /\ inside
                  THEN CommitItems(updateSegmentContext(
                          ItemsState, item, sourceSegments.starts[currentIndex + delta + 1]))
                  ELSE UNCHANGED <<dataStart, dataCurrentIndex, context>>
               /\ UNCHANGED segRequests

prevSegment(item) == StepSegment(item, 0 - 1)
nextSegment(item) == StepSegment(item, 1)

\* scrollContext(resultItem, direction): without segments it returns at once;
\* with segments it is called from the scroller buttons that addContextToResult
\* puts into the item.
scrollContext(item, direction) ==
    /\ IF ~sourceSegments.loaded
       THEN UNCHANGED <<dataStart, dataCurrentIndex, context>>
       ELSE /\ context[item] # NoContext
            /\ LET currentIndex == dataCurrentIndex[item]
                   newIndex ==
                       IF direction = "up"
                       THEN Max(0, currentIndex - scrollAmount)
                       ELSE Min(Len(sourceSegments.starts) - 1, currentIndex + scrollAmount)
               IN IF newIndex = currentIndex
                  THEN UNCHANGED <<dataStart, dataCurrentIndex, context>>
                  ELSE CommitItems(addContextToResult(
                          [ItemsState EXCEPT
                              !.dataCurrentIndex[item] = newIndex,
                              !.dataStart[item] = sourceSegments.starts[newIndex + 1]],
                          sourceSegments, item))
    /\ lastOutcome' = "none"
    /\ lastCalled' = "scrollContext"
    /\ UNCHANGED <<sourceSegments, segRequests, escaped>>

\* addContextToResult(resultItem) called on its own for one item.
AddContext(item) ==
    /\ CommitItems(addContextToResult(ItemsState, sourceSegments, item))
    /\ lastOutcome' = "none"
    /\ lastCalled' = "addContextToResult"
    /\ UNCHANGED <<sourceSegments, segRequests, escaped>>

\* The page as DOMContentLoaded leaves it: the items carry the start time of
\* their hit and the segments of the source are being fetched.
InitSegs ==
    /\ segments \in SegmentLists
    /\ activeContextContainer = 0
    /\ currentSegmentIndex = -1
    /\ lastTime = -1
    /\ highlighted = {}
    /\ sourceSegments = NotLoaded
    /\ segRequests = 1
    /\ dataStart \in [Items -> Times]
    /\ dataCurrentIndex = [item \in Items |-> NoIdx]
    /\ context = [item \in Items |-> NoContext]
    /\ escaped = FALSE
    /\ lastOutcome = "none"
    /\ lastCalled = "none"
    /\ InitQueueVars
    /\ InitAudioIdle
    /\ InitCacheIdle
    /\ InitPollIdle
    /\ InitLightIdle

NextSegs ==
    \/ ToggleSource /\ UNCHANGED <<queueVars, syncVars, audioVars, cacheVars, pollVars, lightVars>>
    \/ \E outcome \in Failures \cup {"ok"} :
          SegmentsResponse(outcome) /\ UNCHANGED <<queueVars, syncVars, audioVars, cacheVars, pollVars, lightVars>>
    \/ \E item \in Items :
          prevSegment(item) /\ UNCHANGED <<queueVars, syncVars, audioVars, cacheVars, pollVars, lightVars>>
    \/ \E item \in Items :
          nextSegment(item) /\ UNCHANGED <<queueVars, syncVars, audioVars, cacheVars, pollVars, lightVars>>
    \/ \E item \in Items, direction \in {"up", "down"} :
          scrollContext(item, direction) /\ UNCHANGED <<queueVars, syncVars, audioVars, cacheVars, pollVars, lightVars>>
    \/ \E item \in Items :
          AddContext(item) /\ UNCHANGED <<queueVars, syncVars, audioVars, cacheVars, pollVars, lightVars>>

SpecSegs == InitSegs /\ [][NextSegs]_vars

\* C11: while the segments of the source are not loaded, addContextToResult,
\* scrollContext, prevSegment and nextSegment leave every item's data-start,
\* data-currentIndex and context as they are; prevSegment and nextSegment start
\* one segments fetch, the other two start none.
C11_ShortCircuit ==
    [][(~sourceSegments.loaded /\ lastCalled' \in {"addContextToResult", "scrollContext",
                                                   "prevSegment", "nextSegment"})
          => /\ dataStart' = dataStart
             /\ dataCurrentIndex' = dataCurrentIndex
             /\ context' = context
             /\ sourceSegments' = sourceSegments
             /\ segRequests' = IF lastCalled' \in {"prevSegment", "nextSegment"}
                               THEN segRequests + 1 ELSE segRequests]_vars

\* nextSegment was clicked before the segments arrived and started a fetch.
C11_Witness ==
    /\ ~sourceSegments.loaded
    /\ lastCalled = "nextSegment"
    /\ segRequests = 2
    /\ \A item \in Items : context[item] = NoContext

\* C10: when the response of a segments fetch is a network error, a body that
\* is not JSON or a body without segments, sourceSegments and every item's
\* data-start, data-currentIndex and context stay as they are and no exception
\* escapes.
C10_FailureSwallowed ==
    [][lastOutcome' \in Failures
          => /\ sourceSegments' = sourceSegments
             /\ dataStart' = dataStart
             /\ dataCurrentIndex' = dataCurrentIndex
             /\ context' = context
             /\ ~escaped']_vars

\* A failed response arrived after the segments were loaded and a context was
\* rendered.
C10_Witness ==
    /\ lastOutcome \in Failures
    /\ sourceSegments.loaded
    /\ \E item \in Items : context[item] # NoContext

\* Result item `item` is as it was before the step.
ItemUnchanged(item) ==
    /\ dataStart'[item] = dataStart[item]
    /\ dataCurrentIndex'[item] = dataCurrentIndex[item]
    /\ context'[item] = context[item]

\* C25: context position invariant. A scrollContext, prevSegment or
\* nextSegment call with the segments loaded leaves every item it changes with
\* data-currentIndex in [0, segments.length-1] and data-start equal to the
\* start of the segment at data-currentIndex.
C25_PositionInvariant ==
    [][(sourceSegments.loaded
          /\ lastCalled' \in {"scrollContext", "prevSegment", "nextSegment"})
         => \A item \in Items :
               ~ItemUnchanged(item)
                  => /\ dataCurrentIndex'[item] \in 0..(Len(sourceSegments.starts) - 1)
                     /\ dataStart'[item] =
                           sourceSegments.starts[dataCurrentIndex'[item] + 1]]_vars

\* C26: single-step navigation. With the segments loaded, nextSegment on an
\* item whose currentIndex is below segments.length-1 makes it currentIndex+1,
\* prevSegment on an item whose currentIndex is above 0 makes it
\* currentIndex-1, at the last/first segment they change nothing, and no
\* other item changes.
C26_SingleStep ==
    [][(sourceSegments.loaded /\ lastCalled' \in {"prevSegment", "nextSegment"})
         => \E item \in Items :
               /\ \A other \in Items \ {item} : ItemUnchanged(other)
               /\ LET i == dataCurrentIndex[item]
                      delta == IF lastCalled' = "prevSegment" THEN 0 - 1 ELSE 1
                  IN IF i # NoIdx /\ (i + delta) \in 0..(Len(sourceSegments.starts) - 1)
                     THEN dataCurrentIndex'[item] = i + delta
                     ELSE ItemUnchanged(item)]_vars

(***************************************************************************)
(* results.js: the context passage of sources with many segments           *)
(***************************************************************************)

MaxContextSegments == 14  \* segments of a long source
MaxGap == 2               \* largest distance of consecutive starts, in ticks

\* Long segment lists: n segments whose starts are gap ticks apart.
ContextLists ==
    {[k \in 1..n |-> (k - 1) * gap] : n \in 0..MaxContextSegments, gap \in 1..MaxGap}
ContextTimes == 0..((MaxContextSegments - 1) * MaxGap)

\* The page as DOMContentLoaded leaves it, for a source with many segments.
InitContext ==
    /\ segments \in ContextLists
    /\ activeContextContainer = 0
    /\ currentSegmentIndex = -1
    /\ lastTime = -1
    /\ highlighted = {}
    /\ sourceSegments = NotLoaded
    /\ segRequests = 1
    /\ dataStart \in [Items -> ContextTimes]
    /\ dataCurrentIndex = [item \in Items |-> NoIdx]
    /\ context = [item \in Items |-> NoContext]
    /\ escaped = FALSE
    /\ lastOutcome = "none"
    /\ lastCalled = "none"
    /\ InitQueueVars
    /\ InitAudioIdle
    /\ InitCacheIdle
    /\ InitPollIdle
    /\ InitLightIdle

SpecContext == InitContext /\ [][NextSegs]_vars

\* The spans ctx are the passage around segment i of a list of length
\* segments: indices max(0, i-6) .. min(length-1, i+6) in increasing order,
\* the span of index i and no other marked current-segment.
ContextShows(ctx, i, length) ==
    LET lo == Max(0, i - contextRange)
        hi == Min(length - 1, i + contextRange)
    IN /\ Len(ctx) = hi - lo + 1
       /\ \A k \in 1..Len(ctx) :
             /\ ctx[k].index = lo + k - 1
             /\ (ctx[k].class = "current-segment") <=> (ctx[k].index = i)

\* C27: a rendered context shows exactly the segments max(0, i-6) ..
\* min(segments.length-1, i+6) around the item's current index i, in
\* increasing order, each with its data-index and only the one at i marked
\* current-segment; scrollContext moves i to max(0, i-6) (up) or
\* min(segments.length-1, i+6) (down) and changes nothing when that equals i.
C27_ContextWindow ==
    /\ [](\A item \in Items :
             context[item] # NoContext
                => ContextShows(context[item], dataCurrentIndex[item],
                                Len(sourceSegments.starts)))
    /\ [][(sourceSegments.loaded /\ lastCalled' = "scrollContext")
            => \E item \in Items, direction \in {"up", "down"} :
                  /\ \A other \in Items \ {item} : ItemUnchanged(other)
                  /\ LET i == dataCurrentIndex[item]
                         target == IF direction = "up"
                                   THEN Max(0, i - scrollAmount)
                                   ELSE Min(Len(sourceSegments.starts) - 1, i + scrollAmount)
                     IN IF target = i
                        THEN ItemUnchanged(item)
                        ELSE dataCurrentIndex'[item] = target]_vars

InitQueue ==
    /\ InitQueueVars /\ InitSyncIdle /\ InitAudioIdle /\ InitCacheIdle /\ InitSegsIdle
    /\ InitPollIdle
    /\ InitLightIdle

NextQueue ==
    \/ \E p \in Placeholders, visible \in BOOLEAN :
          Add(p, visible) /\ UNCHANGED <<syncVars, audioVars, cacheVars, segsVars, pollVars, lightVars>>
    \/ ProcessQueueTimeout /\ UNCHANGED <<syncVars, audioVars, cacheVars, segsVars, pollVars, lightVars>>
    \/ \E p \in Placeholders : LoadedMetadata(p) /\ UNCHANGED <<syncVars, audioVars, cacheVars, segsVars, pollVars, lightVars>>
    \/ \E p \in Placeholders : LoadError(p) /\ UNCHANGED <<syncVars, audioVars, cacheVars, segsVars, pollVars, lightVars>>
    \/ \E p \in Placeholders : LateLoadEvent(p) /\ UNCHANGED <<syncVars, audioVars, cacheVars, segsVars, pollVars, lightVars>>
    \/ \E p \in Placeholders : LoadAudioDirect(p) /\ UNCHANGED <<syncVars, audioVars, cacheVars, segsVars, pollVars, lightVars>>

SpecQueue == InitQueue /\ [][NextQueue]_vars

\* audioQueue.reset(): the queue is emptied and the counters are cleared; the
\* audio elements made so far keep their listeners, and timeouts that are
\* pending stay pending.
Reset ==
    /\ queue' = <<>>
    /\ activeLoads' = 0
    /\ processing' = FALSE
    /\ lastRemoved' = <<>>
    /\ UNCHANGED added
    /\ UNCHANGED <<timers, replaced, audio, tracked>>

\* The queue with every operation of its interface, reset() included (the
\* page itself never calls reset()).
NextQueueReset ==
    \/ NextQueue
    \/ Reset /\ UNCHANGED <<syncVars, audioVars, cacheVars, segsVars, pollVars, lightVars>>

SpecQueueReset == InitQueue /\ [][NextQueueReset]_vars

\* Loads started by processQueue that have neither completed nor failed.
LoadsInProgress ==
    Cardinality({p \in Placeholders : tracked[p] /\ audio[p] = "loading"})

\* C16: activeLoads is never negative and equals the number of loads started
\* by processQueue that have neither completed nor failed.
C16_ActiveLoadsCountsLoads ==
    /\ activeLoads >= 0
    /\ activeLoads = LoadsInProgress

\* C17: the queue is work-conserving: no entry waits in the queue while
\* activeLoads is below concurrentLoads (an entry added while a slot is free
\* starts loading within the add() call).
C17_WorkConserving ==
    queue # <<>> => activeLoads >= concurrentLoads

\* C18: the queue holds no duplicates: no two entries have the same (source,
\* start) pair, and add() of a placeholder whose (source, start) matches a
\* queued entry leaves queue, activeLoads and processing unchanged.
C18_NoDuplicates ==
    /\ \A i, j \in 1..Len(queue) :
          i # j => <<queue[i].source, queue[i].start>> # <<queue[j].source, queue[j].start>>
    /\ \A p \in Placeholders, visible \in BOOLEAN :
          (~replaced[p] /\ SameDataQueued(queue, p))
             => LET R == AddResult(QueueState, p, visible)
                IN /\ R.queue = queue
                   /\ R.activeLoads = activeLoads
                   /\ R.processing = processing

\* The last placeholder, which carries the source and start of the first, was
\* passed to add() while the first was queued: it is still a placeholder and
\* is not in the queue.
C18_Witness ==
    /\ NumPlaceholders \in added
    /\ InQueue(1)
    /\ ~InQueue(NumPlaceholders)
    /\ ~replaced[NumPlaceholders]
    /\ Len(queue) >= 2

\* The entries the step took off the queue whose placeholder had been replaced
\* before the step.
SkippedEntries ==
    {i \in 1..Len(lastRemoved') : replaced[lastRemoved'[i].placeholder]}

\* C20: processQueue skips a queued entry whose placeholder was replaced
\* meanwhile: no audio element is made for it, the skip leaves activeLoads as
\* it was (activeLoads grows only by the loads the call starts), a
\* processQueue timeout is pending afterwards, and the loop goes on through
\* the remaining queue until it is empty or no slot is free.
C20_SkipReplaced ==
    [][SkippedEntries # {}
          => /\ \A i \in SkippedEntries :
                   /\ audio'[lastRemoved'[i].placeholder] = audio[lastRemoved'[i].placeholder]
                   /\ tracked'[lastRemoved'[i].placeholder] = tracked[lastRemoved'[i].placeholder]
             /\ activeLoads' = activeLoads + (Len(lastRemoved') - Cardinality(SkippedEntries))
             /\ timers' >= 1
             /\ queue' = <<>> \/ activeLoads' >= concurrentLoads]_vars

\* processQueue skipped an entry whose placeholder had been loaded directly
\* and went on to start the load of the entry behind it.
C20_Witness ==
    \E i, j \in 1..Len(lastRemoved) :
       /\ i < j
       /\ audio[lastRemoved[i].placeholder] = "direct"
       /\ audio[lastRemoved[j].placeholder] = "loading"

\* C1: in every reachable state at most concurrentLoads (3) loads started by
\* processQueue are still in progress.
C1_AtMostThreeLoads == LoadsInProgress <= concurrentLoads

\* Fairness the claim assumes and the event loop provides: a pending timeout
\* runs, and a load that was started fires loadedmetadata or error.
FairSpecQueue ==
    /\ SpecQueue
    /\ WF_vars(ProcessQueueTimeout /\ UNCHANGED <<syncVars, audioVars, cacheVars, segsVars, pollVars, lightVars>>)
    /\ WF_vars(/\ \E p \in Placeholders : LoadedMetadata(p) \/ LoadError(p)
               /\ UNCHANGED <<syncVars, audioVars, cacheVars, segsVars, pollVars, lightVars>>)

\* C19: every connected, still unreplaced placeholder that is passed to
\* audioQueue.add() is eventually replaced by an audio player, given that
\* started loads eventually complete or fail; this includes a placeholder that
\* shares its source and start with another one.
C19_AddedIsReplaced ==
    \A p \in Placeholders : (p \in added) ~> replaced[p]

\* C3: if every started load eventually fires loadedmetadata or error, every
\* entry in the queue is eventually removed from it (a non-empty queue is
\* eventually empty, so each entry that was in it has left it); and a completed
\* or failed load frees its slot (activeLoads - 1) and schedules processQueue.
C3_QueueDrains ==
    /\ (queue # <<>>) ~> (queue = <<>>)
    /\ [][\A p \in Placeholders :
            (audio[p] = "loading" /\ audio'[p] # "loading")
                => (activeLoads' = activeLoads - 1 /\ timers' = timers + 1)]_vars

\* An entry that had to wait was taken off the queue after a load ended.
C3_Witness ==
    /\ lastRemoved # <<>>
    /\ \E p \in Placeholders : tracked[p] /\ audio[p] \in {"loaded", "dead"}

\* r is dequeued before e: higher priority, or equal priority and added earlier.
Before(r, e) ==
    \/ r.priority > e.priority
    \/ r.priority = e.priority /\ r.arrival < e.arrival

\* C4: whenever processQueue removes an entry, every entry it leaves in the
\* queue (or removes after it) has lower priority, or the same priority and a
\* later arrival.
C4_PriorityThenArrival ==
    \A i \in 1..Len(lastRemoved) :
        /\ \A j \in 1..Len(lastRemoved) : i < j => Before(lastRemoved[i], lastRemoved[j])
        /\ \A k \in 1..Len(queue) : Before(lastRemoved[i], queue[k])

\* A visible entry was removed ahead of an older invisible one that stays
\* queued, and two entries of equal priority were removed in arrival order.
C4_Witness ==
    /\ \E i \in 1..Len(lastRemoved), k \in 1..Len(queue) :
          /\ lastRemoved[i].priority = 1
          /\ queue[k].priority = 0
          /\ queue[k].arrival < lastRemoved[i].arrival
    /\ \E i, j \in 1..Len(lastRemoved) :
          i < j /\ lastRemoved[i].priority = lastRemoved[j].priority


(***************************************************************************)
(* Progressive search polling: checkForMoreResults (results.js)            *)
(***************************************************************************)

MaxPage == 2
MaxResults == 2
MaxPolls == 3

\* The pagination object of a poll response.
MaxPerPage == 1

\* The pagination object of a poll response. The page can lie beyond
\* total_pages: the page number is the one of the URL, the totals are what the
\* search has found so far. has_prev and has_next, which only pick the class
\* of the two outer buttons, are taken as the position of the page implies.
Paginations ==
    {[page |-> pg, total_pages |-> tp, total_results |-> tr, still_searching |-> ss,
      per_page |-> pp, has_prev |-> (pg > 1), has_next |-> (pg < tp)] :
        pg \in 1..MaxPage, tp \in 0..MaxPage, tr \in 0..MaxResults,
        ss \in BOOLEAN, pp \in 1..MaxPerPage}

\* const startPage = Math.max(1, pagination.page - 2)
StartPage(pagination) == Max(1, pagination.page - 2)

\* A window that runs up to the last page.
EndPageIsLast(pagination) == pagination.total_pages

\* const endPage = Math.min(pagination.total_pages, startPage + 4)
EndPage(pagination) == Min(pagination.total_pages, StartPage(pagination) + 4)

\* An <a class="pagination-btn"> or <span> child of .pagination-controls.
Button(kind, link, page) == [kind |-> kind, link |-> link, page |-> page]
Ellipsis == Button("ellipsis", FALSE, 0)

\* The children updatePagination appends to .pagination-controls: previous,
\* first page and ellipsis, the window of numbered buttons, ellipsis and last
\* page, next.
RenderControls(pagination) ==
    LET startPage == StartPage(pagination)
        endPage == EndPage(pagination)
        first == IF startPage > 1
                 THEN <<Button("first", TRUE, 1)>> \o
                      (IF startPage > 2 THEN <<Ellipsis>> ELSE <<>>)
                 ELSE <<>>
        window == [k \in 1..(endPage - startPage + 1) |->
                     LET i == startPage + k - 1
                     IN IF i = pagination.page
                        THEN Button("active", FALSE, i)
                        ELSE Button("page", TRUE, i)]
        last == IF endPage < pagination.total_pages
                THEN (IF endPage < pagination.total_pages - 1 THEN <<Ellipsis>> ELSE <<>>) \o
                     <<Button("last", TRUE, pagination.total_pages)>>
                ELSE <<>>
    IN <<Button("prev", pagination.has_prev, 0)>> \o first \o window \o last \o
       <<Button("next", pagination.has_next, 0)>>

\* updateResultsCount: the text written into the .stats element.
RenderStats(pagination) ==
    IF pagination.total_results > 0
    THEN [kind |-> "range",
          start |-> (pagination.page - 1) * pagination.per_page + 1,
          end |-> Min(pagination.page * pagination.per_page, pagination.total_results),
          total |-> pagination.total_results,
          searching |-> pagination.still_searching]
    ELSE [kind |-> "no_results"]

\* What updatePagination and updateResultsCount put on the page.
RenderPagination(pagination) ==
    /\ shownPagination' = pagination
    /\ paginationControls' = RenderControls(pagination)
    /\ statsText' = RenderStats(pagination)

\* The body of a poll response that parsed as JSON and has the expected shape.
PollData ==
    [still_searching : BOOLEAN, pagination : Paginations,
     results_empty : BOOLEAN, total_count : 0..MaxResults]

\* How a poll can fail: fetch rejects, the body is not JSON, or the JSON has
\* no stats object and the handler throws.
PollFailures == {"network_error", "not_json", "no_stats"}

\* updatePagination followed by updateResultsCount: the bottom pagination shows
\* the given data and the .stats element is rewritten, which drops its spans.
updatePagination(pagination) ==
    /\ RenderPagination(pagination)
    /\ durationSpans' = 0

\* checkForMoreResults up to its fetch.
checkForMoreResults ==
    /\ searchStartTime' = TRUE
    /\ pollRequests' = pollRequests + 1
    /\ polls' = polls + 1

\* The .catch of checkForMoreResults with a handler that polls again.
PollCatchRetries ==
    /\ pollTimers' = pollTimers + 1
    /\ UNCHANGED <<polls, searchStartTime, durationSpans, renderVars, redirected>>

\* The .catch of checkForMoreResults: the error is logged.
PollCatch ==
    UNCHANGED <<pollTimers, polls, searchStartTime, durationSpans, renderVars,
                redirected>>

\* The handler of a usable response that polls again whatever the response
\* says.
PollThenAlwaysPolls(data, urlPage) ==
    IF data.still_searching
    THEN /\ IF data.pagination.total_pages > 0
            THEN updatePagination(data.pagination)
            ELSE UNCHANGED <<renderVars, durationSpans>>
         /\ pollTimers' = pollTimers + 1
         /\ UNCHANGED <<polls, searchStartTime, redirected>>
    ELSE /\ RenderPagination(data.pagination)
         /\ durationSpans' = 1
         /\ searchStartTime' = FALSE
         /\ redirected' = (data.results_empty /\ data.total_count > 0 /\ urlPage > 1)
         /\ pollTimers' = pollTimers + 1
         /\ UNCHANGED polls

\* The handler of a usable response that, when the search is complete, adds
\* no duration span and keeps window.searchStartTime.
PollThenNoDuration(data, urlPage) ==
    IF data.still_searching
    THEN /\ IF data.pagination.total_pages > 0
            THEN updatePagination(data.pagination)
            ELSE UNCHANGED <<renderVars, durationSpans>>
         /\ pollTimers' = pollTimers + 1
         /\ UNCHANGED <<polls, searchStartTime, redirected>>
    ELSE /\ updatePagination(data.pagination)
         /\ redirected' = (data.results_empty /\ data.total_count > 0 /\ urlPage > 1)
         /\ UNCHANGED <<pollTimers, polls, searchStartTime>>

\* The response of a poll arrives with a usable body.
PollThen(data, urlPage) ==
    IF data.still_searching
    THEN /\ IF data.pagination.total_pages > 0
            THEN updatePagination(data.pagination)
            ELSE UNCHANGED <<renderVars, durationSpans>>
         /\ pollTimers' = pollTimers + 1
         /\ UNCHANGED <<polls, searchStartTime, redirected>>
    ELSE /\ RenderPagination(data.pagination)
         /\ durationSpans' = 1
         /\ searchStartTime' = FALSE
         /\ redirected' = (data.results_empty /\ data.total_count > 0 /\ urlPage > 1)
         /\ UNCHANGED <<pollTimers, polls>>

PollResponse(outcome, data, urlPage) ==
    /\ ~redirected
    /\ pollRequests > 0
    /\ pollRequests' = pollRequests - 1
    /\ lastPoll' = IF outcome \in PollFailures THEN outcome
                   ELSE IF data.still_searching THEN "searching" ELSE "complete"
    /\ pageEvent' = "poll_response"
    /\ IF outcome \in PollFailures THEN PollCatch ELSE PollThen(data, urlPage)

\* The one-second timer fires and checkForMoreResults runs again.
PollTimeout ==
    /\ ~redirected
    /\ pollTimers > 0
    /\ polls < MaxPolls
    /\ pollTimers' = pollTimers - 1
    /\ checkForMoreResults
    /\ pageEvent' = "poll_timeout"
    /\ UNCHANGED <<durationSpans, renderVars, redirected, lastPoll>>

\* The handlers of the result items, on the page that is polling.
PageToggleSource ==
    /\ ~redirected
    /\ ToggleSource
    /\ pageEvent' = "toggle_source"
    /\ UNCHANGED <<pollRequests, pollTimers, polls, searchStartTime, durationSpans,
                   renderVars, redirected, lastPoll>>

PageSegmentsResponse(outcome) ==
    /\ ~redirected
    /\ SegmentsResponse(outcome)
    /\ pageEvent' = "segments_response"
    /\ UNCHANGED <<pollRequests, pollTimers, polls, searchStartTime, durationSpans,
                   renderVars, redirected, lastPoll>>

\* The search page as DOMContentLoaded leaves it when the URL has the
\* progressive parameter: the first poll and the segments fetch are under way.
InitPoll ==
    /\ pollRequests = 1
    /\ pollTimers = 0
    /\ polls = 1
    /\ searchStartTime = TRUE
    /\ durationSpans = 0
    /\ shownPagination = NoPagination
    /\ paginationControls = <<>>
    /\ statsText = NoStats
    /\ redirected = FALSE
    /\ lastPoll = "none"
    /\ pageEvent = "none"
    /\ segments \in {<<>>, <<0, 2>>}
    /\ activeContextContainer = 0
    /\ currentSegmentIndex = -1
    /\ lastTime = -1
    /\ highlighted = {}
    /\ sourceSegments = NotLoaded
    /\ segRequests = 1
    /\ dataStart = [item \in Items |-> 0]
    /\ dataCurrentIndex = [item \in Items |-> NoIdx]
    /\ context = [item \in Items |-> NoContext]
    /\ escaped = FALSE
    /\ lastOutcome = "none"
    /\ lastCalled = "none"
    /\ InitQueueVars
    /\ InitAudioIdle
    /\ InitCacheIdle
    /\ InitLightIdle

NextPoll ==
    \/ \E data \in PollData, urlPage \in 1..MaxPage :
          PollResponse("ok", data, urlPage)
             /\ UNCHANGED <<queueVars, syncVars, audioVars, cacheVars, segsVars, lightVars>>
    \/ \E outcome \in PollFailures, urlPage \in 1..MaxPage :
          PollResponse(outcome, CHOOSE data \in PollData : TRUE, urlPage)
             /\ UNCHANGED <<queueVars, syncVars, audioVars, cacheVars, segsVars, lightVars>>
    \/ PollTimeout /\ UNCHANGED <<queueVars, syncVars, audioVars, cacheVars, segsVars, lightVars>>
    \/ PageToggleSource /\ UNCHANGED <<queueVars, syncVars, audioVars, cacheVars, lightVars>>
    \/ \E outcome \in Failures \cup {"ok"} :
          PageSegmentsResponse(outcome)
             /\ UNCHANGED <<queueVars, syncVars, audioVars, cacheVars, lightVars>>

SpecPoll == InitPoll /\ [][NextPoll]_vars

\* C12: no request is retried. A failed poll response takes its request out of
\* flight and leaves no timer and no new request behind; from then on no poll
\* is in flight or scheduled. A failed segments response takes its request out
\* of flight and issues no other request.
C12_NoRetry ==
    /\ [][(pageEvent' = "poll_response" /\ lastPoll' \in PollFailures)
            => /\ pollRequests' = pollRequests - 1
               /\ pollTimers' = pollTimers
               /\ polls' = polls
               /\ segRequests' = segRequests]_vars
    /\ [][(pageEvent' = "segments_response" /\ lastOutcome' \in Failures)
            => /\ segRequests' = segRequests - 1
               /\ pollRequests' = pollRequests
               /\ pollTimers' = pollTimers]_vars
    /\ [](lastPoll \in PollFailures => (pollRequests = 0 /\ pollTimers = 0))

\* A poll failed after an earlier one had scheduled it, and the segments fetch
\* failed too.
C12_Witness ==
    /\ lastPoll \in PollFailures
    /\ polls = 2
    /\ lastOutcome \in Failures
    /\ segRequests = 0
    /\ pollRequests = 0
    /\ pollTimers = 0


\* C21: after a successful poll response one new poll is scheduled if
\* stats.still_searching is true and none if it is false; once a response has
\* reported still_searching false no poll is in flight or scheduled; and at
\* most one poll (request in flight or pending timer) exists at any time.
C21_OnePollAtATime ==
    /\ [][(pageEvent' = "poll_response" /\ lastPoll' = "searching")
            => /\ pollRequests' = pollRequests - 1
               /\ pollTimers' = pollTimers + 1]_vars
    /\ [][(pageEvent' = "poll_response" /\ lastPoll' = "complete")
            => /\ pollRequests' = pollRequests - 1
               /\ pollTimers' = pollTimers]_vars
    /\ [](lastPoll = "complete" => (pollRequests = 0 /\ pollTimers = 0))
    /\ [](pollRequests + pollTimers <= 1)

\* The first response said the search was going on, the poll it scheduled
\* was answered with the search complete, and polling has stopped.
C21_Witness ==
    /\ lastPoll = "complete"
    /\ polls = 2
    /\ pollRequests = 0
    /\ pollTimers = 0

\* C22: the search-duration span is shown only when the search is complete.
\* Until a response reports still_searching false the .stats element holds no
\* .duration span and window.searchStartTime is set; after the completing
\* response it holds exactly one span and window.searchStartTime is null.
C22_DurationWhenComplete ==
    /\ lastPoll \in {"none", "searching"} => (durationSpans = 0 /\ searchStartTime)
    /\ lastPoll = "complete" => (durationSpans = 1 /\ ~searchStartTime)

\* Two polls found the search going on and rewrote the stats; the third one
\* completed it.
C22_Witness ==
    /\ lastPoll = "complete"
    /\ polls = 3
    /\ durationSpans = 1
    /\ ~searchStartTime
    /\ shownPagination.total_results > 0

(***************************************************************************)
(* updatePagination and updateResultsCount on any pagination object        *)
(***************************************************************************)

MaxButtonPage == 8

\* The pagination objects updatePagination is applied to.
AnyPagination ==
    [page : 1..MaxButtonPage, total_pages : 0..MaxButtonPage,
     total_results : 0..MaxResults, still_searching : BOOLEAN,
     per_page : 1..MaxPerPage, has_prev : BOOLEAN, has_next : BOOLEAN]

\* updatePagination(pagination) is called.
UpdatePagination(pagination) ==
    /\ updatePagination(pagination)
    /\ pageEvent' = "update_pagination"
    /\ UNCHANGED <<pollRequests, pollTimers, polls, searchStartTime, redirected, lastPoll>>

InitPagination ==
    /\ InitPollIdle /\ InitQueueVars /\ InitSyncIdle /\ InitAudioIdle /\ InitCacheIdle
    /\ InitSegsIdle /\ InitLightIdle

NextPagination ==
    \E pagination \in AnyPagination :
       UpdatePagination(pagination)
          /\ UNCHANGED <<queueVars, syncVars, audioVars, cacheVars, segsVars, lightVars>>

SpecPagination == InitPagination /\ [][NextPagination]_vars

\* The children of .pagination-controls that show a page number.
NumberedButtons ==
    SelectSeq(paginationControls, LAMBDA b : b.kind \in {"first", "page", "active", "last"})

\* The numbered buttons of the window, without the first-page and last-page
\* links.
WindowButtons ==
    SelectSeq(paginationControls, LAMBDA b : b.kind \in {"page", "active"})

\* C23: after updatePagination with 1 <= page <= total_pages the window shows
\* exactly the pages max(1, page-2) .. min(total_pages, max(1, page-2)+4) in
\* order; the current page appears exactly once, as the active button that is
\* no link; and no page number appears twice, the first-page and last-page
\* links included.
C23_PageWindow ==
    (1 <= shownPagination.page /\ shownPagination.page <= shownPagination.total_pages)
       => LET lo == Max(1, shownPagination.page - 2)
              hi == Min(shownPagination.total_pages, lo + 4)
          IN /\ Len(WindowButtons) = hi - lo + 1
             /\ \A k \in 1..Len(WindowButtons) : WindowButtons[k].page = lo + k - 1
             /\ Cardinality({k \in 1..Len(NumberedButtons) :
                               NumberedButtons[k].page = shownPagination.page}) = 1
             /\ \A k \in 1..Len(NumberedButtons) :
                   NumberedButtons[k].page = shownPagination.page
                      => (NumberedButtons[k].kind = "active" /\ ~NumberedButtons[k].link)
             /\ \A k, m \in 1..Len(NumberedButtons) :
                   k # m => NumberedButtons[k].page # NumberedButtons[m].page

\* Page 5 of 8: the window 3..7 stands between the first-page link with its
\* ellipsis and the last-page link.
C23_Witness ==
    /\ shownPagination.page = 5
    /\ shownPagination.total_pages = 8
    /\ Len(WindowButtons) = 5
    /\ Len(NumberedButtons) = 7
    /\ Len(paginationControls) = 10

\* C24: whenever total_results > 0 the range the .stats element displays
\* satisfies 1 <= start <= end <= total_results, with
\* start = (page-1)*per_page+1 and end = min(page*per_page, total_results).
C24_RangeWithinResults ==
    statsText.kind = "range"
       => /\ statsText.start = (shownPagination.page - 1) * shownPagination.per_page + 1
          /\ statsText.end = Min(shownPagination.page * shownPagination.per_page,
                                 shownPagination.total_results)
          /\ 1 <= statsText.start
          /\ statsText.start <= statsText.end
          /\ statsText.end <= shownPagination.total_results

(***************************************************************************)
(* Lightweight client: audioQueue and lazy loading                         *)
(***************************************************************************)

MaxLightQueue == 3
lightMax == 3

\* placeholder.isConnected: loadAudio takes the placeholder out of the
\* document when it puts the player in its place.
IsConnected(p) == loadAudioCalls[p] = 0

LightState ==
    [q |-> lightQ, active |-> lightActive, calls |-> loadAudioCalls,
     loading |-> lightLoading]

\* audioQueue.tick(): the head of q is loaded when a slot is free.
Tick(S) ==
    IF S.active >= lightMax \/ S.q = <<>>
    THEN S
    ELSE LET ph == Head(S.q)
         IN [q |-> Tail(S.q),
             active |-> S.active + 1,
             calls |-> [S.calls EXCEPT ![ph] = @ + 1],
             loading |-> [S.loading EXCEPT ![ph] = @ + 1]]

CommitLight(S) ==
    /\ lightQ' = S.q
    /\ lightActive' = S.active
    /\ loadAudioCalls' = S.calls
    /\ lightLoading' = S.loading

\* audioQueue.add(ph), called by the IntersectionObserver callback whenever
\* the placeholder is reported intersecting.
LightAdd(p) ==
    /\ IsConnected(p)
    /\ Len(lightQ) < MaxLightQueue
    /\ \E S \in {Tick([LightState EXCEPT !.q = Append(lightQ, p)])} : CommitLight(S)
    /\ UNCHANGED lightLoaded

\* The listeners audioQueue.tick() puts on the audio element it made.
LightListener(S) == Tick([S EXCEPT !.active = @ - 1])

\* loadedmetadata fires on an audio element made for p.
LightLoadedMetadata(p) ==
    /\ lightLoading[p] > 0
    /\ \E S \in {LightListener([LightState EXCEPT !.loading[p] = @ - 1])} : CommitLight(S)
    /\ lightLoaded' = [lightLoaded EXCEPT ![p] = @ + 1]

\* error fires on an audio element made for p before its metadata is there.
LightLoadError(p) ==
    /\ lightLoading[p] > 0
    /\ \E S \in {LightListener([LightState EXCEPT !.loading[p] = @ - 1])} : CommitLight(S)
    /\ UNCHANGED lightLoaded

\* error fires on an audio element whose metadata had loaded (the stream
\* breaks during playback); the listener of tick() is still attached.
LightLateError(p) ==
    /\ lightLoaded[p] > 0
    /\ \E S \in {LightListener(LightState)} : CommitLight(S)
    /\ lightLoaded' = [lightLoaded EXCEPT ![p] = @ - 1]

InitLight ==
    /\ lightQ = <<>>
    /\ lightActive = 0
    /\ loadAudioCalls = [p \in Placeholders |-> 0]
    /\ lightLoading = [p \in Placeholders |-> 0]
    /\ lightLoaded = [p \in Placeholders |-> 0]
    /\ InitQueueVars /\ InitSyncIdle /\ InitAudioIdle /\ InitCacheIdle /\ InitSegsIdle
    /\ InitPollIdle

NextLight ==
    \/ \E p \in Placeholders :
          LightAdd(p)
             /\ UNCHANGED <<queueVars, syncVars, audioVars, cacheVars, segsVars, pollVars>>
    \/ \E p \in Placeholders :
          LightLoadedMetadata(p)
             /\ UNCHANGED <<queueVars, syncVars, audioVars, cacheVars, segsVars, pollVars>>
    \/ \E p \in Placeholders :
          LightLoadError(p)
             /\ UNCHANGED <<queueVars, syncVars, audioVars, cacheVars, segsVars, pollVars>>
    \/ \E p \in Placeholders :
          LightLateError(p)
             /\ UNCHANGED <<queueVars, syncVars, audioVars, cacheVars, segsVars, pollVars>>

SpecLight == InitLight /\ [][NextLight]_vars

\* C14: loadAudio is invoked at most once per placeholder element.
C14_LoadAudioOncePerPlaceholder ==
    \A p \in Placeholders : loadAudioCalls[p] <= 1

====
